---- MODULE Spec2Model ----
(***************************************************************************)
(* Model of BMI.py: the metrics engine (calculate_bmi, calculate_bmr,      *)
(* calculate_ideal_weight_range, get_bmi_classification,                   *)
(* generate_diet_plan) and the history store of BMICalculatorApp.          *)
(*                                                                         *)
(* Number representation.  Python floats are modelled as exact decimals:   *)
(*   weights in whole kg, heights in whole cm, ages in whole years,        *)
(*   a BMI in hundredths (22.86 is 2286), an ideal weight in tenths        *)
(*   (56.7 is 567), a BMR in whole kcal.                                   *)
(* round(x, n) rounds the double x; where the exact quotient is strictly   *)
(* between two candidates the nearer one is returned.  Where the exact     *)
(* quotient of calculate_bmi is a tie (x.xx5) the double that the division *)
(* produces lies on either side of it, so both neighbours are possible     *)
(* results.  round(x) of calculate_bmr works on multiples of 0.25, which   *)
(* doubles hold exactly, so ties are rounded half to even.                 *)
(***************************************************************************)
EXTENDS Integers, Sequences, FiniteSets, TLC

VARIABLES
    call,             \* the last metrics-engine call: function, arguments, outcome
    history,          \* self.history
    file,             \* the content of HISTORY_FILE on disk
    last_metrics,     \* self.last_metrics
    diet_plan_button, \* state of self.diet_plan_button
    history_windows,  \* number of open history windows (each holds a clear button)
    diet_plan,        \* the plan shown by the most recent diet-plan window
    dialog,           \* the messagebox shown by the most recent handler
    lastOp            \* the most recent handler and the path it took

vars == <<call, history, file, last_metrics, diet_plan_button,
          history_windows, diet_plan, dialog, lastOp>>

appVars == <<history, file, last_metrics, diet_plan_button,
             history_windows, diet_plan, dialog, lastOp>>

\* ---------------------------------------------------------------- bounds
MaxWeightKg == 100
MaxHeightCm == 200
MaxBmi == 4000
MinBmrWeightKg == 66
MaxBmrWeightKg == 74
MinBmrHeightCm == 172
MaxBmrHeightCm == 179
MaxAge == 60
MinDietBmr == 1650
MaxDietBmr == 1750

\* Arguments of calculate_bmi include the non-positive values -1 and 0.
Weights == (0 - 1)..MaxWeightKg
Heights == (0 - 1)..MaxHeightCm
Bmis == 1..MaxBmi
BmrWeights == MinBmrWeightKg..MaxBmrWeightKg
BmrHeights == MinBmrHeightCm..MaxBmrHeightCm
Ages == 1..MaxAge
Genders == {"Male", "Female", "Other"}
DietBmrs == MinDietBmr..MaxDietBmr
Categories == {"Underweight", "Normal Weight", "Overweight", "Obese", "Unknown"}

\* ------------------------------------------------------------- rounding
\* n / d (d > 0) rounded to the nearest integer, an exact tie going to the
\* even neighbour: Python's round() on an exactly represented value.
RoundHalfEven(n, d) ==
    LET q == n \div d
        r == n % d
    IN  IF 2 * r < d THEN q
        ELSE IF 2 * r > d THEN q + 1
        ELSE IF q % 2 = 0 THEN q ELSE q + 1

\* The results round() can give for the double nearest to n / d when n / d
\* itself is not representable: the nearest integer, or either neighbour
\* on an exact tie.
RoundNearest(n, d) ==
    LET q == n \div d
        r == n % d
    IN  IF 2 * r < d THEN {q}
        ELSE IF 2 * r > d THEN {q + 1}
        ELSE {q, q + 1}

Max(a, b) == IF a >= b THEN a ELSE b

\* ------------------------------------------------------- metrics engine
calculate_bmi_floor(weight_kg, height_cm) ==
    IF height_cm <= 0 \/ weight_kg <= 0
    THEN [error |-> "ValueError", values |-> {}]
    ELSE [error |-> "none",
          values |-> {(weight_kg * 1000000) \div (height_cm * height_cm)}]

calculate_bmi_and_guard(weight_kg, height_cm) ==
    IF height_cm <= 0 /\ weight_kg <= 0
    THEN [error |-> "ValueError", values |-> {}]
    ELSE [error |-> "none",
          values |-> IF height_cm = 0 THEN {0}
                     ELSE RoundNearest(weight_kg * 1000000, height_cm * height_cm)]

\* bmi = weight_kg / (height_cm / 100) ** 2, in hundredths:
\* weight_kg * 10^6 / height_cm^2.
calculate_bmi(weight_kg, height_cm) ==
    IF height_cm <= 0 \/ weight_kg <= 0
    THEN [error |-> "ValueError", values |-> {}]
    ELSE [error |-> "none",
          values |-> RoundNearest(weight_kg * 1000000, height_cm * height_cm)]

calculate_bmr_truncating(weight_kg, height_cm, age_years, gender) ==
    LET base4 == 40 * weight_kg + 25 * height_cm - 20 * age_years
        bmr4 == IF gender = "Male" THEN base4 + 20
                ELSE IF gender = "Female" THEN base4 - 644
                ELSE base4
    IN  bmr4 \div 4

calculate_bmr_female151(weight_kg, height_cm, age_years, gender) ==
    LET base4 == 40 * weight_kg + 25 * height_cm - 20 * age_years
        bmr4 == IF gender = "Male" THEN base4 + 20
                ELSE IF gender = "Female" THEN base4 - 604
                ELSE base4
    IN  RoundHalfEven(bmr4, 4)

\* base_bmr in quarters of a kcal: 4 * (10 w + 6.25 h - 5 a).
calculate_bmr(weight_kg, height_cm, age_years, gender) ==
    LET base4 == 40 * weight_kg + 25 * height_cm - 20 * age_years
        bmr4 == IF gender = "Male" THEN base4 + 20
                ELSE IF gender = "Female" THEN base4 - 644
                ELSE base4
    IN  RoundHalfEven(bmr4, 4)

calculate_ideal_weight_range_floor(height_cm) ==
    <<(185 * height_cm * height_cm) \div 10000,
      (249 * height_cm * height_cm) \div 10000>>

\* 18.5 * (h/100)^2 and 24.9 * (h/100)^2 in tenths of a kg:
\* 185 h^2 / 10^4 and 249 h^2 / 10^4.
calculate_ideal_weight_range(height_cm) ==
    <<RoundHalfEven(185 * height_cm * height_cm, 10000),
      RoundHalfEven(249 * height_cm * height_cm, 10000)>>

DARK_PINK == "#e60073"

get_bmi_classification_shifted(bmi) ==
    IF bmi <= 1850
    THEN [category |-> "Underweight", color |-> DARK_PINK,
          advice |-> "Focus on a nutrient-rich diet to gain weight safely."]
    ELSE IF 1850 <= bmi /\ bmi <= 2490
    THEN [category |-> "Normal Weight", color |-> "#28a745",
          advice |-> "Maintain your current healthy habits. Excellent!"]
    ELSE IF 2500 < bmi /\ bmi <= 2990
    THEN [category |-> "Overweight", color |-> "#fd7e14",
          advice |-> "Consider consulting a doctor or dietitian to manage weight."]
    ELSE [category |-> "Obese", color |-> "#dc3545",
          advice |-> "It is highly recommended to seek professional health guidance immediately."]

get_bmi_classification(bmi) ==
    IF bmi < 1850
    THEN [category |-> "Underweight", color |-> DARK_PINK,
          advice |-> "Focus on a nutrient-rich diet to gain weight safely."]
    ELSE IF 1850 <= bmi /\ bmi <= 2490
    THEN [category |-> "Normal Weight", color |-> "#28a745",
          advice |-> "Maintain your current healthy habits. Excellent!"]
    ELSE IF 2500 <= bmi /\ bmi <= 2990
    THEN [category |-> "Overweight", color |-> "#fd7e14",
          advice |-> "Consider consulting a doctor or dietitian to manage weight."]
    ELSE [category |-> "Obese", color |-> "#dc3545",
          advice |-> "It is highly recommended to seek professional health guidance immediately."]

DefaultMacros == "Protein: 25%, Carbs: 45%, Fats: 30%"
HigherProteinMacros ==
    "Protein: 30%, Carbs: 40%, Fats: 30% (Higher protein supports muscle mass retention)"

generate_diet_plan_nofloor(category, bmr, age) ==
    LET goal == IF category \in {"Overweight", "Obese"} THEN bmr - 500
                ELSE IF category = "Underweight" THEN bmr + 300
                ELSE bmr + 200
        plan == IF category \in {"Overweight", "Obese"} THEN "Weight Management Plan"
                ELSE IF category = "Underweight" THEN "Healthy Weight Gain Plan"
                ELSE "Maintenance & Wellness Plan"
    IN  [title |-> <<plan, category>>,
         goal_kcal |-> goal,
         focus |-> <<plan, goal>>,
         macros |-> IF age > 50 THEN HigherProteinMacros ELSE DefaultMacros,
         suggestions |-> plan]

\* title, focus and suggestions are fixed templates per branch; the title
\* interpolates the category and the focus the calorie goal.
generate_diet_plan(category, bmr, age) ==
    LET goal == IF category \in {"Overweight", "Obese"} THEN Max(1200, bmr - 500)
                ELSE IF category = "Underweight" THEN bmr + 300
                ELSE bmr + 200
        plan == IF category \in {"Overweight", "Obese"} THEN "Weight Management Plan"
                ELSE IF category = "Underweight" THEN "Healthy Weight Gain Plan"
                ELSE "Maintenance & Wellness Plan"
    IN  [title |-> <<plan, category>>,
         goal_kcal |-> goal,
         focus |-> <<plan, goal>>,
         macros |-> IF age >= 50 THEN HigherProteinMacros ELSE DefaultMacros,
         suggestions |-> plan]

\* ------------------------------------------- calls of the metrics engine
\* The engine is called with one set of arguments at a time; the caller
\* takes the outcome (Return) before the next call.
NoCall == [fn |-> "none"]

NoRequest == [weight_kg |-> 0, height_cm |-> 0, age_years |-> 0,
              gender |-> "", bmi |-> 0, category |-> "", bmr |-> 0]

Request(fields) == [k \in DOMAIN NoRequest |->
                     IF k \in DOMAIN fields THEN fields[k] ELSE NoRequest[k]]

CallCalculateBmi ==
    /\ call.fn = "none"
    /\ \E w \in Weights, h \in Heights :
        LET r == calculate_bmi(w, h)
            a == Request([weight_kg |-> w, height_cm |-> h])
        IN  \/ /\ r.error # "none"
               /\ call' = [fn |-> "calculate_bmi", args |-> a,
                           error |-> r.error, returned |-> FALSE, ret |-> 0]
            \/ /\ r.error = "none"
               /\ \E v \in r.values :
                      call' = [fn |-> "calculate_bmi", args |-> a,
                               error |-> "none", returned |-> TRUE, ret |-> v]

CallCalculateBmr ==
    /\ call.fn = "none"
    /\ \E w \in BmrWeights, h \in BmrHeights, a \in Ages, g \in Genders :
        call' = [fn |-> "calculate_bmr",
                 args |-> Request([weight_kg |-> w, height_cm |-> h,
                                   age_years |-> a, gender |-> g]),
                 error |-> "none", returned |-> TRUE,
                 ret |-> calculate_bmr(w, h, a, g)]

CallCalculateIdealWeightRange ==
    /\ call.fn = "none"
    /\ \E h \in 1..MaxHeightCm :
        call' = [fn |-> "calculate_ideal_weight_range",
                 args |-> Request([height_cm |-> h]),
                 error |-> "none", returned |-> TRUE,
                 ret |-> calculate_ideal_weight_range(h)]

CallGetBmiClassification ==
    /\ call.fn = "none"
    /\ \E b \in Bmis :
        call' = [fn |-> "get_bmi_classification",
                 args |-> Request([bmi |-> b]),
                 error |-> "none", returned |-> TRUE,
                 ret |-> get_bmi_classification(b)]

CallGenerateDietPlan ==
    /\ call.fn = "none"
    /\ \E c \in Categories, b \in DietBmrs, a \in Ages :
        call' = [fn |-> "generate_diet_plan",
                 args |-> Request([category |-> c, bmr |-> b, age_years |-> a]),
                 error |-> "none", returned |-> TRUE,
                 ret |-> generate_diet_plan(c, b, a)]

\* ------------------------------------------------------- bounds of the app
MaxHistory == 2
MaxWindows == 1

\* ------------------------------------------------- text of the entry fields
\* The content of an entry field is a sequence of characters.
DigitChars == {"0", "1", "2", "3", "4", "5", "6", "7", "8", "9"}

DigitValue(c) ==
    CASE c = "0" -> 0 [] c = "1" -> 1 [] c = "2" -> 2 [] c = "3" -> 3
      [] c = "4" -> 4 [] c = "5" -> 5 [] c = "6" -> 6 [] c = "7" -> 7
      [] c = "8" -> 8 [] c = "9" -> 9

IsDigits(s) == Len(s) > 0 /\ \A i \in 1..Len(s) : s[i] \in DigitChars

RECURSIVE DigitsValue(_)
DigitsValue(s) ==
    IF s = <<>> THEN 0
    ELSE 10 * DigitsValue(SubSeq(s, 1, Len(s) - 1)) + DigitValue(s[Len(s)])

\* int(s): an optionally signed run of digits, ValueError otherwise.
int(s) ==
    IF IsDigits(s) THEN [error |-> "none", nan |-> FALSE, value |-> DigitsValue(s)]
    ELSE IF Len(s) > 1 /\ s[1] = "-" /\ IsDigits(Tail(s))
    THEN [error |-> "none", nan |-> FALSE, value |-> 0 - DigitsValue(Tail(s))]
    ELSE [error |-> "ValueError", nan |-> FALSE, value |-> 0]

\* float(s), for the literals without a fraction: as int(s), and "nan".
float(s) ==
    IF s = <<"n", "a", "n">> THEN [error |-> "none", nan |-> TRUE, value |-> 0]
    ELSE int(s)

\* str.strip() of the name field.
strip(s) == SelectSeq(s, LAMBDA c : c # " ")

NameTexts == {<<>>, <<" ">>, <<"A", "n", "n">>}
AgeTexts == {<<>>, <<"0">>, <<"3", "0">>, <<"5", "5">>}
WeightTexts == {<<>>, <<"0">>, <<"n", "a", "n">>, <<"5", "0">>, <<"7", "0">>}
HeightTexts == {<<>>, <<"-", "5">>, <<"1", "7", "5">>}
\* The gender menu is left at its initial value.
GenderChoices == {"Male"}
Dates == {"2025-01-01 10:00"}

\* --------------------------------------------------------- history store
EmptyList == [type |-> "list", items |-> <<>>]
EmptyDict == [type |-> "dict", items |-> <<>>]

EntryKeys == <<"name", "date", "weight_kg", "height_cm", "bmi", "category">>
StringKeys == {"name", "date", "category"}

\* json.dump of a history: an array of objects whose members are written
\* in the insertion order of the entry's keys.
JsonMember(key, entry) ==
    IF key \in StringKeys
    THEN [key |-> key, t |-> "string", s |-> entry[key], n |-> 0]
    ELSE [key |-> key, t |-> "number", s |-> "", n |-> entry[key]]

json_dump(value) ==
    IF value.type = "list"
    THEN [t |-> "array",
          elems |-> [i \in 1..Len(value.items) |->
                       [k \in 1..Len(EntryKeys) |->
                          JsonMember(EntryKeys[k], value.items[i])]]]
    ELSE [t |-> "object", elems |-> <<>>]

\* json.load: an object becomes a dict keyed by its member names, an
\* array a list, in document order.
JsonObjectToDict(members) ==
    [key \in {members[k].key : k \in 1..Len(members)} |->
        LET m == members[CHOOSE k \in 1..Len(members) : members[k].key = key]
        IN  IF m.t = "string" THEN m.s ELSE m.n]

json_load(doc) ==
    IF doc.t = "array"
    THEN [type |-> "list",
          items |-> [i \in 1..Len(doc.elems) |-> JsonObjectToDict(doc.elems[i])]]
    ELSE EmptyDict

NoDoc == [t |-> "none", elems |-> <<>>]

AbsentFile == [kind |-> "absent", doc |-> NoDoc]
ZeroLengthFile == [kind |-> "empty", doc |-> NoDoc]
CorruptFile == [kind |-> "corrupt", doc |-> NoDoc]
JsonFile(doc) == [kind |-> "json", doc |-> doc]
\* Bytes that are not UTF-8 text.
UndecodableFile == [kind |-> "undecodable", doc |-> NoDoc]

\* _load_history; readable = FALSE is an IOError while opening or reading.
_load_history(f, readable) ==
    IF f.kind \in {"absent", "empty"} THEN EmptyList
    ELSE IF ~readable THEN EmptyList
    ELSE IF f.kind = "corrupt" THEN EmptyList
    ELSE json_load(f.doc)

\* The exception that leaves _load_history: the except clause names
\* json.JSONDecodeError and IOError only, and the UnicodeDecodeError of
\* f.read() is neither.
_load_history_error(f, readable) ==
    IF f.kind \in {"absent", "empty"} THEN "none"
    ELSE IF ~readable THEN "none"
    ELSE IF f.kind = "undecodable" THEN "UnicodeDecodeError"
    ELSE "none"

\* with open(HISTORY_FILE, 'w') as f: json.dump(value, f).  open() either
\* fails and leaves the file alone, or truncates it; a failure after that
\* leaves it zero-length or holding a prefix of the document.
WriteOutcomes == {"ok", "open_failed", "truncated", "partial"}

WriteFile(f, value, io) ==
    CASE io = "ok" -> JsonFile(json_dump(value))
      [] io = "open_failed" -> f
      [] io = "truncated" -> ZeroLengthFile
      [] io = "partial" -> CorruptFile

\* ------------------------------------------------------------ app state
NoMetrics == [is_none |-> TRUE, category |-> "", bmr |-> 0, age_years |-> 0]
NoPlan == [title |-> <<"", "">>, goal_kcal |-> 0, focus |-> <<"", 0>>,
           macros |-> "", suggestions |-> ""]
NoDialog == [kind |-> "none", title |-> ""]
Dialog(kind, title) == [kind |-> kind, title |-> title]

\* Files that an earlier run, or anything else, left on disk.
PreviousEntry ==
    [name |-> <<"B", "o">>, date |-> "2024-12-31 08:15", weight_kg |-> 95,
     height_cm |-> 175, bmi |-> 3102, category |-> "Obese"]

InitialFiles ==
    {AbsentFile, ZeroLengthFile, CorruptFile,
     JsonFile(json_dump(EmptyDict)),
     JsonFile(json_dump(EmptyList)),
     JsonFile(json_dump([type |-> "list", items |-> <<PreviousEntry>>]))}

\* BMICalculatorApp.__init__
Init ==
    /\ call = NoCall
    /\ file \in InitialFiles
    /\ \E readable \in BOOLEAN : history = _load_history(file, readable)
    /\ last_metrics = NoMetrics
    /\ diet_plan_button = "disabled"
    /\ history_windows = 0
    /\ diet_plan = NoPlan
    /\ dialog = NoDialog
    /\ lastOp = [op |-> "__init__", path |-> "done", io |-> "none"]

\* A handler that returns after a messagebox and changes nothing else.
Reject(kind, title, path) ==
    /\ dialog' = Dialog(kind, title)
    /\ lastOp' = [op |-> "calculate_bmi_gui", path |-> path, io |-> "none"]
    /\ UNCHANGED <<call, history, file, last_metrics, diet_plan_button,
                   history_windows, diet_plan>>

\* _save_history(entry) followed by steps 4 and 5 of calculate_bmi_gui.
SaveAndShow(entry, category, bmr_value, age_years, io) ==
    IF history.type # "list"
    THEN \* self.history.append raises AttributeError: except Exception
         Reject("showerror", "An Error Occurred", "exception")
    ELSE /\ history' = [history EXCEPT !.items = Append(@, entry)]
         /\ file' = WriteFile(file, history', io)
         /\ dialog' = IF io = "ok" THEN NoDialog
                      ELSE Dialog("showerror", "File Error")
         /\ last_metrics' = [is_none |-> FALSE, category |-> category,
                             bmr |-> bmr_value, age_years |-> age_years]
         /\ diet_plan_button' = "normal"
         /\ lastOp' = [op |-> "calculate_bmi_gui", path |-> "saved", io |-> io]
         /\ UNCHANGED <<call, history_windows, diet_plan>>

\* The handler reads all five fields first; a field is drawn here where the
\* handler first uses it, which leaves the fields that a rejected attempt
\* never looks at unconstrained.
calculate_bmi_gui ==
    /\ history.type = "list" => Len(history.items) < MaxHistory
    /\ \E name_text \in NameTexts :
        IF strip(name_text) = <<>>
        THEN Reject("showwarning", "Input Error", "no_name")
        ELSE \E age_str \in AgeTexts :
            IF age_str = <<>>
            THEN Reject("showwarning", "Input Error", "no_age")
            ELSE IF int(age_str).error # "none"
            THEN Reject("showerror", "Input Error", "value_error")
            ELSE IF int(age_str).value <= 0
            THEN Reject("showwarning", "Input Error", "no_age")
            ELSE \E weight_str \in WeightTexts, height_str \in HeightTexts :
                LET name_str == strip(name_text)
                    age_years == int(age_str).value
                    weight == float(weight_str)
                    height == float(height_str)
                    weight_kg == weight.value
                    height_cm == height.value
                IN  IF weight_str = <<>> \/ height_str = <<>>
                    THEN Reject("showwarning", "Input Error", "no_weight_height")
                    ELSE IF weight.error # "none" \/ height.error # "none"
                    THEN Reject("showerror", "Input Error", "value_error")
                    ELSE IF (~weight.nan /\ weight_kg <= 0)
                            \/ (~height.nan /\ height_cm <= 0)
                    THEN Reject("showwarning", "Input Error", "not_positive")
                    ELSE IF weight.nan \/ height.nan
                    THEN \* bmi and bmr are nan; round(bmr) raises ValueError
                         Reject("showerror", "Input Error", "value_error")
                    ELSE IF calculate_bmi(weight_kg, height_cm).error # "none"
                    THEN Reject("showerror", "Input Error", "value_error")
                    ELSE \E bmi_value \in calculate_bmi(weight_kg, height_cm).values,
                            gender_str \in GenderChoices, now \in Dates,
                            io \in WriteOutcomes :
                        LET category == get_bmi_classification(bmi_value).category
                            bmr_value == calculate_bmr(weight_kg, height_cm,
                                                       age_years, gender_str)
                            new_entry == [name |-> name_str,
                                          date |-> now,
                                          weight_kg |-> weight_kg,
                                          height_cm |-> height_cm,
                                          bmi |-> bmi_value,
                                          category |-> category]
                        IN  SaveAndShow(new_entry, category, bmr_value,
                                        age_years, io)

\* view_history: the reload, then the dashboard window with its clear button.
view_history ==
    /\ history_windows < MaxWindows
    /\ \E readable \in BOOLEAN :
        /\ history' = _load_history(file, readable)
        /\ lastOp' = [op |-> "view_history",
                      path |-> IF readable THEN "loaded" ELSE "read_failed",
                      io |-> "none"]
    /\ history_windows' = history_windows + 1
    /\ dialog' = NoDialog
    /\ UNCHANGED <<call, file, last_metrics, diet_plan_button, diet_plan>>

\* The user closes a history window.
CloseHistoryWindow ==
    /\ history_windows > 0
    /\ history_windows' = history_windows - 1
    /\ lastOp' = [op |-> "close_history_window", path |-> "done", io |-> "none"]
    /\ dialog' = NoDialog
    /\ UNCHANGED <<call, history, file, last_metrics, diet_plan_button, diet_plan>>

clear_history_forgets_metrics ==
    /\ history_windows > 0
    /\ \/ \* askyesno answered no
          /\ dialog' = Dialog("askyesno", "Confirm Clear History")
          /\ lastOp' = [op |-> "clear_history", path |-> "declined", io |-> "none"]
          /\ UNCHANGED <<call, history, file, last_metrics, diet_plan_button,
                         history_windows, diet_plan>>
       \/ \E io \in {"ok", "open_failed", "truncated"} :
          /\ history' = EmptyList
          /\ file' = WriteFile(file, EmptyList, io)
          /\ dialog' = IF io = "ok" THEN Dialog("showinfo", "History Cleared")
                       ELSE Dialog("showerror", "File Error")
          /\ history_windows' = IF io = "ok" THEN history_windows - 1
                                ELSE history_windows
          /\ lastOp' = [op |-> "clear_history", path |-> "confirmed", io |-> io]
          /\ last_metrics' = NoMetrics
          /\ UNCHANGED <<call, diet_plan_button, diet_plan>>

\* clear_history, reached from the button of an open history window.
clear_history ==
    /\ history_windows > 0
    /\ \/ \* askyesno answered no
          /\ dialog' = Dialog("askyesno", "Confirm Clear History")
          /\ lastOp' = [op |-> "clear_history", path |-> "declined", io |-> "none"]
          /\ UNCHANGED <<call, history, file, last_metrics, diet_plan_button,
                         history_windows, diet_plan>>
       \/ \E io \in {"ok", "open_failed", "truncated"} :
          /\ history' = EmptyList
          /\ file' = WriteFile(file, EmptyList, io)
          /\ dialog' = IF io = "ok" THEN Dialog("showinfo", "History Cleared")
                       ELSE Dialog("showerror", "File Error")
          /\ history_windows' = IF io = "ok" THEN history_windows - 1
                                ELSE history_windows
          /\ lastOp' = [op |-> "clear_history", path |-> "confirmed", io |-> io]
          /\ UNCHANGED <<call, last_metrics, diet_plan_button, diet_plan>>

open_diet_plan_window ==
    /\ IF last_metrics.is_none
       THEN /\ dialog' = Dialog("showwarning", "Metrics Missing")
            /\ lastOp' = [op |-> "open_diet_plan_window", path |-> "warned",
                          io |-> "none"]
            /\ UNCHANGED diet_plan
       ELSE /\ diet_plan' = generate_diet_plan(last_metrics.category,
                                               last_metrics.bmr,
                                               last_metrics.age_years)
            /\ dialog' = NoDialog
            /\ lastOp' = [op |-> "open_diet_plan_window", path |-> "shown",
                          io |-> "none"]
    /\ UNCHANGED <<call, history, file, last_metrics, diet_plan_button,
                   history_windows>>

Next ==
    \/ calculate_bmi_gui
    \/ view_history
    \/ CloseHistoryWindow
    \/ clear_history
    \/ open_diet_plan_window

Spec == Init /\ [][Next]_vars

\* ------------------------------------------------ dashboard statistics
RECURSIVE SumSeq(_)
SumSeq(s) == IF s = <<>> THEN 0 ELSE s[1] + SumSeq(Tail(s))

MinOf(s) == CHOOSE x \in {s[i] : i \in 1..Len(s)} : \A i \in 1..Len(s) : x <= s[i]
MaxOf(s) == CHOOSE x \in {s[i] : i \in 1..Len(s)} : \A i \in 1..Len(s) : x >= s[i]

\* The strings of the statistics: 'N/A', or a number formatted with :.2f,
\* held as its hundredths.
NotAvailable == [text |-> "N/A", hundredths |-> 0]
Format2f(hundredths) == [text |-> ".2f", hundredths |-> hundredths]

_calculate_statistics_floor_mean(h) ==
    IF Len(h.items) = 0
    THEN {[count |-> 0, avg_bmi |-> NotAvailable,
           min_bmi |-> NotAvailable, max_bmi |-> NotAvailable]}
    ELSE LET bmis == [i \in 1..Len(h.items) |-> h.items[i].bmi]
         IN  {[count |-> Len(bmis),
               avg_bmi |-> Format2f(SumSeq(bmis) \div Len(bmis)),
               min_bmi |-> Format2f(MinOf(bmis)),
               max_bmi |-> Format2f(MaxOf(bmis))]}

\* The possible results: sum(bmis) / len(bmis) is a double, so a mean that
\* is an exact tie (x.xx5) formats to either neighbour.
_calculate_statistics(h) ==
    IF Len(h.items) = 0
    THEN {[count |-> 0, avg_bmi |-> NotAvailable,
           min_bmi |-> NotAvailable, max_bmi |-> NotAvailable]}
    ELSE LET bmis == [i \in 1..Len(h.items) |-> h.items[i].bmi]
         IN  {[count |-> Len(bmis),
               avg_bmi |-> Format2f(avg),
               min_bmi |-> Format2f(MinOf(bmis)),
               max_bmi |-> Format2f(MaxOf(bmis))] :
              avg \in RoundNearest(SumSeq(bmis), Len(bmis))}

\* ------------------------- calls of the history store's functions
MaxStored == 3
StoredBmis == {1850, 2000, 2001, 2200, 2400}

StoredEntry(bmi) ==
    [PreviousEntry EXCEPT !.bmi = bmi,
                          !.category = get_bmi_classification(bmi).category]

StoredHistories ==
    {[type |-> "list", items |-> [i \in 1..Len(b) |-> StoredEntry(b[i])]] :
        b \in UNION {[1..n -> StoredBmis] : n \in 0..MaxStored}}

LoadFiles ==
    {AbsentFile, ZeroLengthFile, CorruptFile, UndecodableFile,
     JsonFile(json_dump(EmptyDict))}
    \cup {JsonFile(json_dump(h)) : h \in StoredHistories}

CallLoadHistory ==
    /\ call.fn = "none"
    /\ \E f \in LoadFiles, readable \in BOOLEAN :
        LET error == _load_history_error(f, readable)
        IN  call' = [fn |-> "_load_history",
                     args |-> [file |-> f, readable |-> readable],
                     error |-> error,
                     returned |-> error = "none",
                     ret |-> IF error = "none" THEN _load_history(f, readable)
                             ELSE EmptyList]

CallCalculateStatistics ==
    /\ call.fn = "none"
    /\ \E h \in StoredHistories \cup {EmptyDict} :
        \E stats \in _calculate_statistics(h) :
            call' = [fn |-> "_calculate_statistics",
                     args |-> [history |-> h],
                     error |-> "none", returned |-> TRUE,
                     ret |-> stats]

\* ------------------- the functions on their own, one call at a time
InitMetrics ==
    /\ call = NoCall
    /\ file = AbsentFile
    /\ history = EmptyList
    /\ last_metrics = NoMetrics
    /\ diet_plan_button = "disabled"
    /\ history_windows = 0
    /\ diet_plan = NoPlan
    /\ dialog = NoDialog
    /\ lastOp = [op |-> "__init__", path |-> "done", io |-> "none"]

Return ==
    /\ call.fn # "none"
    /\ call' = NoCall

NextMetrics ==
    \/ CallCalculateBmi /\ UNCHANGED appVars
    \/ CallCalculateBmr /\ UNCHANGED appVars
    \/ CallCalculateIdealWeightRange /\ UNCHANGED appVars
    \/ CallGetBmiClassification /\ UNCHANGED appVars
    \/ CallGenerateDietPlan /\ UNCHANGED appVars
    \/ CallLoadHistory /\ UNCHANGED appVars
    \/ CallCalculateStatistics /\ UNCHANGED appVars
    \/ Return /\ UNCHANGED appVars

SpecMetrics == InitMetrics /\ [][NextMetrics]_vars

\* ================================================================ claims
Abs(x) == IF x < 0 THEN 0 - x ELSE x

IsPrefix(s, t) == Len(s) <= Len(t) /\ SubSeq(t, 1, Len(s)) = s

Called(fn) == call.fn = fn

\* C1 (as claimed): every bmi > 0 is Underweight iff bmi < 18.5, Normal
\* Weight iff 18.5 <= bmi < 25.0, Overweight iff 25.0 <= bmi < 30.0 and
\* Obese iff bmi >= 30.0.
C1_ContiguousIntervals ==
    Called("get_bmi_classification") =>
        LET bmi == call.args.bmi
            category == call.ret.category
        IN  /\ category = "Underweight" <=> bmi < 1850
            /\ category = "Normal Weight" <=> (1850 <= bmi /\ bmi < 2500)
            /\ category = "Overweight" <=> (2500 <= bmi /\ bmi < 3000)
            /\ category = "Obese" <=> bmi >= 3000

\* C2: at the documented boundaries the classification is 18.49 ->
\* Underweight, 18.5 -> Normal Weight, 24.9 -> Normal Weight, 25.0 ->
\* Overweight, 29.9 -> Overweight, 30.0 -> Obese.
C2_BoundaryValues ==
    Called("get_bmi_classification") =>
        LET bmi == call.args.bmi
            category == call.ret.category
        IN  /\ bmi = 1849 => category = "Underweight"
            /\ bmi = 1850 => category = "Normal Weight"
            /\ bmi = 2490 => category = "Normal Weight"
            /\ bmi = 2500 => category = "Overweight"
            /\ bmi = 2990 => category = "Overweight"
            /\ bmi = 3000 => category = "Obese"

C2_Witness ==
    /\ Called("get_bmi_classification")
    /\ call.args.bmi = 2500
    /\ call.ret.category = "Overweight"

IsBmrCall(w, h, a, g) ==
    /\ Called("calculate_bmr")
    /\ call.args.weight_kg = w
    /\ call.args.height_cm = h
    /\ call.args.age_years = a
    /\ call.args.gender = g

\* C3 (as claimed): calculate_bmr(70, 175, 30, 'Male') returns 1674.
C3_Original == IsBmrCall(70, 175, 30, "Male") => call.ret = 1674

\* C3 (amended): calculate_bmr(70, 175, 30, 'Male') returns 1649, the
\* integer nearest to 10*70 + 6.25*175 - 5*30 + 5 = 1648.75.
C3_Bmr1649 ==
    IsBmrCall(70, 175, 30, "Male") =>
        /\ call.ret = 1649
        /\ Abs(4 * call.ret - (40 * 70 + 25 * 175 - 20 * 30 + 20)) <= 2

C3_Witness == IsBmrCall(70, 175, 30, "Male") /\ call.ret = 1649

\* C4 (as claimed): calculate_ideal_weight_range(175) returns (56.7, 76.2).
C4_Original ==
    (Called("calculate_ideal_weight_range") /\ call.args.height_cm = 175)
        => call.ret = <<567, 762>>

\* C4 (amended): calculate_ideal_weight_range(175) returns (56.7, 76.3);
\* for every height the two results are within half a tenth of
\* 18.5*(h/100)^2 and 24.9*(h/100)^2.
C4_IdealRange ==
    Called("calculate_ideal_weight_range") =>
        LET h == call.args.height_cm
        IN  /\ 2 * Abs(10000 * call.ret[1] - 185 * h * h) <= 10000
            /\ 2 * Abs(10000 * call.ret[2] - 249 * h * h) <= 10000
            /\ h = 175 => call.ret = <<567, 763>>

C4_Witness ==
    /\ Called("calculate_ideal_weight_range")
    /\ call.args.height_cm = 175
    /\ call.ret = <<567, 763>>

C6_RoundedQuotient ==
    (Called("calculate_bmi") /\ call.returned) =>
        LET w == call.args.weight_kg
            h == call.args.height_cm
        IN  /\ w > 0 /\ h > 0
            /\ 2 * Abs(call.ret * h * h - w * 1000000) <= h * h
            /\ (w = 70 /\ h = 175) =>
                  /\ call.ret = 2286
                  /\ get_bmi_classification(call.ret).category = "Normal Weight"

C6_Witness ==
    /\ Called("calculate_bmi")
    /\ call.args.weight_kg = 70
    /\ call.args.height_cm = 175
    /\ call.returned
    /\ call.ret = 2286

\* C7: calculate_bmr returns the integer nearest to 10 w + 6.25 h - 5 a
\* plus 5 for 'Male', minus 161 for 'Female' and plus 0 for any other
\* gender; for equal other inputs bmr(Male) - bmr(Female) = 166.
C7_MifflinStJeor ==
    Called("calculate_bmr") =>
        LET w == call.args.weight_kg
            h == call.args.height_cm
            a == call.args.age_years
            g == call.args.gender
            adjustment == IF g = "Male" THEN 5 ELSE IF g = "Female" THEN 0 - 161 ELSE 0
        IN  /\ Abs(4 * call.ret - (40 * w + 25 * h - 20 * a + 4 * adjustment)) <= 2
            /\ g = "Male" => call.ret - calculate_bmr(w, h, a, "Female") = 166
            /\ g = "Female" => calculate_bmr(w, h, a, "Male") - call.ret = 166

C7_Witness == IsBmrCall(70, 175, 30, "Female") /\ call.ret = 1483

\* C8: goal_kcal is max(1200, bmr - 500) for Overweight and Obese, bmr + 300
\* for Underweight and bmr + 200 for every other category; the
\* Overweight/Obese goal is never below 1200; the macro split is the
\* higher-protein text exactly when age >= 50, whatever the category.
C8_DietGoal ==
    Called("generate_diet_plan") =>
        LET category == call.args.category
            bmr == call.args.bmr
            goal == call.ret.goal_kcal
        IN  /\ category \in {"Overweight", "Obese"} =>
                  /\ goal >= 1200
                  /\ goal >= bmr - 500
                  /\ goal \in {1200, bmr - 500}
            /\ category = "Underweight" => goal = bmr + 300
            /\ category \notin {"Overweight", "Obese", "Underweight"} =>
                  goal = bmr + 200
            /\ call.ret.macros = HigherProteinMacros <=> call.args.age_years >= 50
            /\ call.ret.macros \in {HigherProteinMacros, DefaultMacros}

C8_Witness ==
    /\ Called("generate_diet_plan")
    /\ call.args.category = "Obese"
    /\ call.args.bmr = 1660
    /\ call.args.age_years = 50
    /\ call.ret.goal_kcal = 1200
    /\ call.ret.macros = HigherProteinMacros

ConfirmedClear(op) == op.op = "clear_history" /\ op.path = "confirmed"

\* C9 (as claimed): an entry of the in-memory history leaves it only through
\* a confirmed clear_history; every other step keeps the entries it found,
\* unchanged and in order, at the front of the history.
C9_RemovedOnlyByClear ==
    [][(history.type = "list" /\ ~ConfirmedClear(lastOp'))
          => (history'.type = "list" /\ IsPrefix(history.items, history'.items))]_vars

SaveHistoryCalled(op) ==
    op.op = "calculate_bmi_gui" /\ op.path \in {"saved", "exception"}

\* C10 (as claimed): _save_history appends one entry behind the unchanged
\* earlier entries and writes the whole list to the file; when the write
\* fails an error is shown, the entry stays in memory and the file keeps
\* its previous content.
C10_AppendThenPersist ==
    [][SaveHistoryCalled(lastOp') =>
          /\ history.type = "list" /\ history'.type = "list"
          /\ Len(history'.items) = Len(history.items) + 1
          /\ IsPrefix(history.items, history'.items)
          /\ lastOp'.io = "ok" => file' = JsonFile(json_dump(history'))
          /\ lastOp'.io # "ok" =>
                (dialog' = Dialog("showerror", "File Error") /\ file' = file)]_vars

\* C11 (as claimed): when _save_history is called and nothing goes wrong
\* with the disk, the history holds one entry more than before and a fresh
\* _load_history of the file it left behind returns exactly the in-memory
\* history, the same entries in the same order, whatever the history was
\* before and wherever it was loaded from.
C11_RestartRoundTrip ==
    [][(SaveHistoryCalled(lastOp') /\ lastOp'.io \in {"ok", "none"}) =>
          /\ history'.type = "list"
          /\ Len(history'.items) = Len(history.items) + 1
          /\ _load_history(file', TRUE) = history']_vars

\* C12 (as claimed): after a confirmed clear_history the in-memory history
\* is empty and a following _load_history returns the empty list, whether
\* or not the file write succeeded.
C12_ClearedForGood ==
    ConfirmedClear(lastOp) =>
        /\ history = EmptyList
        /\ _load_history(file, TRUE) = EmptyList

WellFormedArray(f) == f.kind = "json" /\ f.doc.t = "array"

\* C13 (as claimed): _load_history never raises; it returns the empty list
\* when the file is absent, zero-length, unreadable or anything but a
\* well-formed array of records, and the stored entries in stored order
\* when the file is such an array.
C13_LoadHistoryTotal ==
    Called("_load_history") =>
        LET f == call.args.file
        IN  /\ call.error = "none"
            /\ call.ret.type = "list"
            /\ IF WellFormedArray(f) /\ call.args.readable
               THEN json_dump(call.ret) = f.doc
               ELSE call.ret = EmptyList

\* C14: _calculate_statistics returns count 0 and 'N/A' three times for an
\* empty history; for a non-empty one the count is the number of entries,
\* avg is the mean of the bmis to two decimals, min and max are the
\* smallest and the largest bmi, min <= avg <= max, and the bmis
\* [20, 22, 24] give count 3, avg 22.00, min 20.00, max 24.00.
C14_Statistics ==
    Called("_calculate_statistics") =>
        LET items == call.args.history.items
            n == Len(items)
            bmis == {items[i].bmi : i \in 1..n}
            total == SumSeq([i \in 1..n |-> items[i].bmi])
            stats == call.ret
        IN  IF n = 0
            THEN /\ stats.count = 0
                 /\ stats.avg_bmi.text = "N/A"
                 /\ stats.min_bmi.text = "N/A"
                 /\ stats.max_bmi.text = "N/A"
            ELSE /\ stats.count = n
                 /\ stats.avg_bmi.text = ".2f"
                 /\ stats.min_bmi.text = ".2f"
                 /\ stats.max_bmi.text = ".2f"
                 /\ 2 * Abs(stats.avg_bmi.hundredths * n - total) <= n
                 /\ stats.min_bmi.hundredths \in bmis
                 /\ stats.max_bmi.hundredths \in bmis
                 /\ \A b \in bmis : /\ stats.min_bmi.hundredths <= b
                                    /\ b <= stats.max_bmi.hundredths
                 /\ stats.min_bmi.hundredths <= stats.avg_bmi.hundredths
                 /\ stats.avg_bmi.hundredths <= stats.max_bmi.hundredths
                 /\ [i \in 1..n |-> items[i].bmi] = <<2000, 2200, 2400>> =>
                        /\ stats.count = 3
                        /\ stats.avg_bmi = Format2f(2200)
                        /\ stats.min_bmi = Format2f(2000)
                        /\ stats.max_bmi = Format2f(2400)

\* The statistics of a history whose mean, 20.0067, is not a multiple of
\* 0.01 and rounds up.
C14_Witness ==
    /\ Called("_calculate_statistics")
    /\ Len(call.args.history.items) = 3
    /\ call.args.history.items[1].bmi = 2000
    /\ call.args.history.items[2].bmi = 2001
    /\ call.args.history.items[3].bmi = 2001
    /\ call.ret.count = 3
    /\ call.ret.avg_bmi = Format2f(2001)
    /\ call.ret.min_bmi = Format2f(2000)
    /\ call.ret.max_bmi = Format2f(2001)

\* C15 (as claimed): a calculation attempt with invalid input is rejected
\* with the history, the file, last_metrics and the diet-plan button all
\* unchanged, and a valid attempt appends exactly one entry.
C15_RejectedOrAppended ==
    [][lastOp'.op = "calculate_bmi_gui" =>
          IF SaveHistoryCalled(lastOp')
          THEN /\ history'.type = "list"
               /\ Len(history'.items) = Len(history.items) + 1
          ELSE UNCHANGED <<history, file, last_metrics, diet_plan_button>>]_vars

SavedCalculation(op) == op.op = "calculate_bmi_gui" /\ op.path = "saved"

\* C16: the diet-plan button is enabled exactly when a calculation has
\* succeeded, and no plan exists before that; the button is never disabled
\* again; open_diet_plan_window only warns while there are no metrics and
\* otherwise computes the plan from the stored category, bmr and age; the
\* stored metrics change only in a successful calculation, to the category
\* and bmr of the entry it appended, so neither clear_history nor a
\* rejected attempt touches them.
C16_PlanFromLastCalculation ==
    /\ [](/\ diet_plan_button = "normal" <=> ~last_metrics.is_none
          /\ last_metrics.is_none => diet_plan = NoPlan)
    /\ [][/\ diet_plan_button = "normal" => diet_plan_button' = "normal"
          /\ lastOp'.op = "open_diet_plan_window" =>
                IF last_metrics.is_none
                THEN /\ lastOp'.path = "warned"
                     /\ dialog' = Dialog("showwarning", "Metrics Missing")
                     /\ diet_plan' = diet_plan
                ELSE /\ lastOp'.path = "shown"
                     /\ diet_plan' = generate_diet_plan(last_metrics.category,
                                                        last_metrics.bmr,
                                                        last_metrics.age_years)
          /\ lastOp'.op # "open_diet_plan_window" => diet_plan' = diet_plan
          /\ IF SavedCalculation(lastOp')
             THEN LET entry == history'.items[Len(history'.items)]
                  IN  /\ ~last_metrics'.is_none
                      /\ last_metrics'.category = entry.category
                      /\ last_metrics'.age_years \in Ages
                      /\ \E g \in GenderChoices :
                            last_metrics'.bmr =
                                calculate_bmr(entry.weight_kg, entry.height_cm,
                                              last_metrics'.age_years, g)
             ELSE last_metrics' = last_metrics]_vars

\* A plan shown after the history was cleared, from the metrics that the
\* calculation before the clearing stored.
C16_Witness ==
    /\ lastOp.op = "open_diet_plan_window"
    /\ lastOp.path = "shown"
    /\ history = EmptyList
    /\ ~last_metrics.is_none
    /\ diet_plan = generate_diet_plan(last_metrics.category, last_metrics.bmr,
                                      last_metrics.age_years)
    /\ diet_plan # NoPlan

====
